---- MODULE Spec2Model ----
(***************************************************************************)
(* SimpleSystem of solar_lib.py: the cached derived series (dc, ac,        *)
(* produced energy, net energy), the dirty flag, and the accounting        *)
(* functions clamp, calculate_ac_production, calculate_zero_feed,          *)
(* calculate_battery_levels and total_energy.                              *)
(*                                                                         *)
(* Numbers.  Python floats are modelled in fixed point: the integer x     *)
(* stands for the real x / Scale.  All inputs are chosen so that every     *)
(* product and quotient the code forms is exact at this resolution.        *)
(* Watts (the ModelChain results) are whole numbers.                       *)
(***************************************************************************)
EXTENDS Integers, Sequences, FiniteSets, TLC

VARIABLES
    consumption,          \* self.consumption: list of kWh per interval
    times,                \* self.times: [n |-> number of timestamps, freq_min |-> its frequency]
    timestep,             \* self.timestep, hours
    weather,              \* self.weather
    dc_output,            \* self.dc_output, watts
    dc_output_kw,         \* self.dc_output_kw
    ac_output,            \* self.ac_output, watts
    ac_output_kw,         \* self.ac_output_kw
    ac_production,        \* self.ac_production (no attribute until run_model sets it)
    net_energy_produced,  \* self.net_energy_produced
    dirty,                \* self.dirty
    vals,                 \* the list the caller passed last to a function taking one
    last                  \* the last call: its arguments and how it ended

inputs == <<consumption, times, timestep>>
cache  == <<dc_output, dc_output_kw, ac_output, ac_output_kw, ac_production,
            net_energy_produced>>
vars   == <<consumption, times, timestep, weather, dc_output, dc_output_kw, ac_output,
            ac_output_kw, ac_production, net_energy_produced, dirty, vals, last>>

----------------------------------------------------------------------------
(* Bounds of the model *)

\* largest number of timestamps of a system
MaxLen == 3
\* longest list handed to calculate_ac_production / total_energy directly
MaxFnLen == 5

----------------------------------------------------------------------------
(* Fixed-point arithmetic *)

Scale == 4
One   == Scale
Half  == Scale \div 2
Mul(a, b) == (a * b) \div Scale

\* Python's min(a, b) and max(a, b): the first argument unless the second beats it
Min(a, b) == IF b < a THEN b ELSE a
Max(a, b) == IF b > a THEN b ELSE a

\* float('-inf'): below every value the model forms
NegInf == -1000000

MinutesPerHour == 60

----------------------------------------------------------------------------
(* Python values of the attributes *)

None      == [tag |-> "None",  v |-> <<>>]
Unset     == [tag |-> "unset", v |-> <<>>]     \* the attribute does not exist
List(s)   == [tag |-> "list",  v |-> s]
Num(x)    == [tag |-> "num",   v |-> <<x>>]

SeqsOf(S, n) == [1..n -> S]

\* raise Exception("the system needs weather data.")
MissingInput == "Exception: the system needs weather data."

----------------------------------------------------------------------------
(* Inputs *)

\* One clear-sky sample, identified with the DC and AC watts the external
\* ModelChain computes for it.
WeatherSamples == {[dc |-> 0, ac |-> 0], [dc |-> 10000, ac |-> 8000]}
ConsumptionVals == {0, 3 * Scale}
Freqs == {30, 60}
\* <<initial_soc, capacity_kwh>>: fractions inside and outside [0, 1], capacities
\* above, at and below zero
BatteryArgs == {<<0, 2 * Scale>>, <<Half, 2 * Scale>>, <<One, 2 * Scale>>,
                <<-1, 2 * Scale>>, <<One + 1, 2 * Scale>>,
                <<Half, 0>>, <<Half, -1 * Scale>>}

FnVals == {0, 2 * Scale, 4 * Scale}
FnFreqs == {30, 60, 120}
FnTimesteps == {Half, One, 2 * One}
FnSeries == UNION {SeqsOf(FnVals, k) : k \in 0..MaxFnLen}

----------------------------------------------------------------------------
(* Pure functions *)

clamp_no_upper(n, min_val, max_val) == Max(n, min_val)

clamp(n, min_val, max_val) == Max(Min(max_val, n), min_val)

\* self.timestep = self.times.freq.nanos/3600000000000
TimestepOf(t) == (t.freq_min * Scale) \div MinutesPerHour

\* the trapezoid of one interval: ((1) * timestep) * (1/2) * (val + prev)
Trapezoid(ts, val, prev) == Mul(Mul(Mul(One, ts), Half), val + prev)

RECURSIVE AcProductionLoop(_, _, _, _)
AcProductionLoop(power, ts, i, production) ==
    IF i > Len(power) THEN production
    ELSE AcProductionLoop(power, ts, i + 1,
            IF i # 1
              THEN Append(production, Trapezoid(ts, power[i], power[i - 1]))
              ELSE production)

calculate_ac_production_first(power, ts) ==
    (IF Len(power) > 0 THEN <<Mul(ts, power[1])>> ELSE <<0>>)
        \o AcProductionLoop(power, ts, 1, <<>>)

\* production.insert(0, 0.0) after the loop
calculate_ac_production(power, ts) ==
    <<0>> \o AcProductionLoop(power, ts, 1, <<>>)

zero_feed_keep_surplus(net) == [i \in 1..Len(net) |-> clamp(net[i], NegInf, net[i])]

zero_feed_list(net) == [i \in 1..Len(net) |-> clamp(net[i], NegInf, 0)]

RECURSIVE BatteryLoop(_, _, _, _, _)
BatteryLoop(net, starting_energy, capacity_kwh, i, remaining_energy) ==
    IF i > Len(net) THEN remaining_energy
    ELSE LET new_energy == IF i = 1 THEN starting_energy + net[i]
                           ELSE remaining_energy[i - 1] + net[i]
         IN  BatteryLoop(net, starting_energy, capacity_kwh, i + 1,
                 Append(remaining_energy, clamp(new_energy, 0, capacity_kwh)))

RECURSIVE PrefixSum(_, _)
PrefixSum(s, i) == IF i = 0 THEN 0 ELSE s[i] + PrefixSum(s, i - 1)

battery_levels_unclamped_prev(net, initial_soc, capacity_kwh) ==
    [i \in 1..Len(net) |->
        clamp(Mul(capacity_kwh, initial_soc) + PrefixSum(net, i), 0, capacity_kwh)]

battery_levels(net, initial_soc, capacity_kwh) ==
    BatteryLoop(net, Mul(capacity_kwh, initial_soc), capacity_kwh, 1, <<>>)

RECURSIVE TotalLoop(_, _, _, _)
TotalLoop(v, ts, i, total) ==
    IF i > Len(v) THEN total
    ELSE TotalLoop(v, ts, i + 1,
            IF i # 1 THEN total + Trapezoid(ts, v[i], v[i - 1]) ELSE total)

\* the loop without its "if i!=0": vals[-1] is the last element
total_energy_wrap(v, ts) ==
    IF Len(v) = 0 THEN 0
    ELSE TotalLoop(v, ts, 1, 0) + Trapezoid(ts, v[1], v[Len(v)])

total_energy(v, ts) == TotalLoop(v, ts, 1, 0)

----------------------------------------------------------------------------
(* run_model: the derived series of a weather *)

ModelDc(w) == [i \in 1..Len(w) |-> w[i].dc]
ModelAc(w) == [i \in 1..Len(w) |-> w[i].ac]
KwList(watts) == [i \in 1..Len(watts) |-> (watts[i] * Scale) \div 1000]

\* [produced - consumed for produced, consumed in zip(ac_production, consumption)]
NetEnergy(produced, consumed) ==
    [i \in 1..Min(Len(produced), Len(consumed)) |-> produced[i] - consumed[i]]

Derived(w) ==
    LET dc  == ModelDc(w)
        ac  == ModelAc(w)
        ackw == KwList(ac)
        prod == calculate_ac_production(ackw, timestep)
    IN  [dc_output |-> dc, dc_output_kw |-> KwList(dc),
         ac_output |-> ac, ac_output_kw |-> ackw,
         ac_production |-> prod,
         net_energy_produced |-> NetEnergy(prod, consumption)]

RunModelBody ==
    LET d == Derived(weather.v)
    IN  /\ dc_output' = List(d.dc_output)
        /\ dc_output_kw' = List(d.dc_output_kw)
        /\ ac_output' = List(d.ac_output)
        /\ ac_output_kw' = List(d.ac_output_kw)
        /\ ac_production' = List(d.ac_production)
        /\ net_energy_produced' = List(d.net_energy_produced)
        /\ dirty' = FALSE

NoRun == UNCHANGED <<cache, dirty>>

----------------------------------------------------------------------------
(* The record of a call *)

Call(op) ==
    [op |-> op, initial_soc |-> 0, capacity_kwh |-> 0, timestep |-> 0,
     stale |-> dirty,                            \* self.dirty when the call began
     never_ran |-> ac_production.tag = "unset",  \* no run_model had completed
     ran_model |-> FALSE,                        \* the call went through run_model
     status |-> "ok", value |-> None]

Return(c, value, ran) == [c EXCEPT !.value = value, !.ran_model = ran]
Raise(c, exc, ran)    == [c EXCEPT !.status = exc, !.ran_model = ran]

----------------------------------------------------------------------------
(* Construction *)

Constructed ==
    /\ timestep = TimestepOf(times)
    /\ weather = None
    /\ dc_output = None
    /\ dc_output_kw = None
    /\ ac_output = None
    /\ ac_output_kw = None
    /\ ac_production = Unset
    /\ net_energy_produced = None
    /\ dirty = TRUE
    /\ last = [op |-> "__init__", initial_soc |-> 0, capacity_kwh |-> 0, timestep |-> 0,
               stale |-> TRUE, never_ran |-> TRUE, ran_model |-> FALSE,
               status |-> "ok", value |-> None]

\* consumption as long as the timestamps or one shorter (zip ignores what a longer
\* list has beyond the timestamps)
Init ==
    /\ times \in [n : 1..MaxLen, freq_min : Freqs]
    /\ consumption \in UNION {SeqsOf(ConsumptionVals, k) : k \in (times.n - 1)..times.n}
    /\ vals = <<>>
    /\ Constructed

\* one timestamp, the functions' arguments drawn from FnSeries
InitFn ==
    /\ times \in [n : {1}, freq_min : FnFreqs]
    /\ consumption = <<0>>
    /\ vals \in FnSeries
    /\ Constructed

----------------------------------------------------------------------------
(* Operations *)

\* location.get_clearsky(self.times) is an external fetch: any clear-sky series with
\* one sample per timestamp (self.times and self.location are plain attributes a
\* caller may have changed since the previous fetch)
update_weather ==
    /\ \E w \in SeqsOf(WeatherSamples, times.n) : weather' = List(w)
    /\ dirty' = TRUE
    /\ last' = Call("update_weather")
    /\ UNCHANGED <<inputs, cache, vals>>

run_model ==
    /\ IF weather.tag = "None"
         THEN NoRun /\ last' = Raise(Call("run_model"), MissingInput, TRUE)
         ELSE RunModelBody /\ last' = Return(Call("run_model"), None, TRUE)
    /\ UNCHANGED <<inputs, weather, vals>>

\* if self.<field> is None: self.run_model(); return self.<field>
Getter(op, field, fieldAfter) ==
    /\ IF field.tag = "None"
         THEN IF weather.tag = "None"
                THEN NoRun /\ last' = Raise(Call(op), MissingInput, TRUE)
                ELSE RunModelBody /\ last' = Return(Call(op), fieldAfter, TRUE)
         ELSE NoRun /\ last' = Return(Call(op), field, FALSE)
    /\ UNCHANGED <<inputs, weather, vals>>

get_ac_output == Getter("get_ac_output", ac_output_kw, ac_output_kw')

get_dc_output == Getter("get_dc_output", dc_output_kw, dc_output_kw')

get_net_energy_produced ==
    Getter("get_net_energy_produced", net_energy_produced, net_energy_produced')

get_ac_production ==
    IF ac_production.tag = "unset"
      THEN /\ NoRun
           /\ last' = Raise(Call("get_ac_production"), "AttributeError", FALSE)
           /\ UNCHANGED <<inputs, weather, vals>>
      ELSE Getter("get_ac_production", ac_production, ac_production')

calculate_zero_feed ==
    /\ IF net_energy_produced.tag = "None"
         THEN IF weather.tag = "None"
                THEN NoRun /\ last' = Raise(Call("calculate_zero_feed"), MissingInput, TRUE)
                ELSE /\ RunModelBody
                     /\ last' = Return(Call("calculate_zero_feed"),
                                       List(zero_feed_list(net_energy_produced'.v)), TRUE)
         ELSE /\ NoRun
              /\ last' = Return(Call("calculate_zero_feed"),
                                List(zero_feed_list(net_energy_produced.v)), FALSE)
    /\ UNCHANGED <<inputs, weather, vals>>

calculate_battery_levels(initial_soc, capacity_kwh) ==
    LET c == [Call("calculate_battery_levels") EXCEPT
                 !.initial_soc = initial_soc, !.capacity_kwh = capacity_kwh]
    IN  /\ IF net_energy_produced.tag = "None"
             THEN last' = Raise(c, "TypeError", FALSE)     \* enumerate(None)
             ELSE last' = Return(c,
                     List(battery_levels(net_energy_produced.v, initial_soc, capacity_kwh)),
                     FALSE)
        /\ UNCHANGED <<inputs, weather, cache, dirty, vals>>

call_calculate_ac_production(power) ==
    /\ vals' = power
    /\ last' = Return(Call("calculate_ac_production"),
                      List(calculate_ac_production(power, timestep)), FALSE)
    /\ UNCHANGED <<inputs, weather, cache, dirty>>

call_total_energy(v, ts) ==
    /\ vals' = v
    /\ last' = Return([Call("total_energy") EXCEPT !.timestep = ts],
                      Num(total_energy(v, ts)), FALSE)
    /\ UNCHANGED <<inputs, weather, cache, dirty>>

BatteryCall == \E a \in BatteryArgs : calculate_battery_levels(a[1], a[2])
FnAcProductionCall == call_calculate_ac_production(vals)
FnTotalEnergyCall == \E ts \in FnTimesteps : call_total_energy(vals, ts)

Next ==
    \/ update_weather
    \/ run_model
    \/ get_ac_output
    \/ get_dc_output
    \/ get_net_energy_produced
    \/ get_ac_production
    \/ calculate_zero_feed
    \/ BatteryCall

Spec == Init /\ [][Next]_vars

NextFn ==
    \/ update_weather
    \/ run_model
    \/ FnAcProductionCall
    \/ FnTotalEnergyCall

SpecFn == InitFn /\ [][NextFn]_vars

----------------------------------------------------------------------------
(* Properties *)

Accessors == {"get_ac_output", "get_dc_output", "get_net_energy_produced",
              "get_ac_production", "calculate_zero_feed", "calculate_battery_levels"}

Indices(s) == 1..Len(s)

\* what an accessor returns on a system whose cache was computed from weather w
Fresh(op, w) ==
    LET d == Derived(w)
    IN  CASE op = "get_ac_output" -> List(d.ac_output_kw)
          [] op = "get_dc_output" -> List(d.dc_output_kw)
          [] op = "get_net_energy_produced" -> List(d.net_energy_produced)
          [] op = "get_ac_production" -> List(d.ac_production)
          [] op = "calculate_zero_feed" -> List(zero_feed_list(d.net_energy_produced))
          [] op = "calculate_battery_levels" ->
                List(battery_levels(d.net_energy_produced, last.initial_soc,
                                    last.capacity_kwh))

BatteryReturned ==
    /\ last.op = "calculate_battery_levels"
    /\ last.status = "ok"

\* C1: with capacity_kwh > 0 and initial_soc in [0, 1], every element of the list
\* calculate_battery_levels returns lies in [0, capacity_kwh].
C1_BatteryWithinCapacity ==
    (/\ BatteryReturned
     /\ last.capacity_kwh > 0
     /\ last.initial_soc >= 0
     /\ last.initial_soc <= One)
    => \A i \in Indices(last.value.v) :
          /\ 0 <= last.value.v[i]
          /\ last.value.v[i] <= last.capacity_kwh

\* a returned trajectory that was cut at the capacity in one interval and at zero in
\* another
C1_Witness ==
    /\ BatteryReturned
    /\ last.capacity_kwh > 0
    /\ last.initial_soc >= 0
    /\ last.initial_soc <= One
    /\ \E i, j \in Indices(last.value.v) :
          /\ i > 1
          /\ last.value.v[i] = last.capacity_kwh
          /\ last.value.v[i - 1] + net_energy_produced.v[i] > last.capacity_kwh
          /\ last.value.v[j] = 0
          /\ Mul(last.capacity_kwh, last.initial_soc) + net_energy_produced.v[1] < 0

\* C2: an accessor called while the weather is newer than the cache (update_weather
\* after the last run_model, so dirty) goes through run_model and returns the series
\* derived from the current weather, not the cached one.
C2_AccessorReturnsCurrentWeather ==
    (/\ last.op \in Accessors
     /\ last.stale
     /\ ~last.never_ran
     /\ weather.tag = "list"
     /\ Len(consumption) = times.n)
    => /\ last.status = "ok"
       /\ last.value = Fresh(last.op, weather.v)

\* C3: with weather supplied and no run_model so far, each accessor runs the model
\* itself and returns one value per timestamp (consumption as long as times).
C3_FirstAccessRecomputes ==
    (/\ last.op \in Accessors
     /\ last.never_ran
     /\ weather.tag = "list"
     /\ Len(consumption) = times.n)
    => /\ last.status = "ok"
       /\ last.value.tag = "list"
       /\ Len(last.value.v) = times.n

\* C4: without weather, every request for a derived value fails with run_model's
\* missing-input error, and the cache stays unset and dirty stays TRUE.
C4_MissingInputEverywhere ==
    (/\ weather.tag = "None"
     /\ last.op \in Accessors \cup {"run_model"})
    => /\ last.status = MissingInput
       /\ dc_output_kw = None
       /\ ac_output_kw = None
       /\ net_energy_produced = None
       /\ dirty

\* C5: calculate_battery_levels (on a system whose net series exists) fails with
\* InvalidCapacity when capacity_kwh <= 0 and with InvalidFraction when initial_soc
\* is outside [0, 1], and returns no trajectory.
C5_BatteryValidatesArguments ==
    (/\ last.op = "calculate_battery_levels"
     /\ net_energy_produced.tag = "list"
     /\ Len(consumption) = times.n)
    => /\ last.capacity_kwh <= 0
            => (last.status = "InvalidCapacity" /\ last.value = None)
       /\ (last.initial_soc < 0 \/ last.initial_soc > One)
            => (last.status \in {"InvalidCapacity", "InvalidFraction"}
                /\ last.value = None)

\* C6: run_model's net energy is produced[i] - consumed[i] for every timestamp; with
\* a consumption list of another length it fails with LengthMismatch and never
\* stores a net series shorter than the timestamps.
C6_NetEnergyLengthChecked ==
    (/\ last.op = "run_model"
     /\ weather.tag = "list")
    => IF Len(consumption) # times.n
         THEN last.status = "LengthMismatch"
         ELSE /\ last.status = "ok"
              /\ Len(net_energy_produced.v) = times.n
              /\ \A i \in 1..times.n :
                    net_energy_produced.v[i] = ac_production.v[i] - consumption[i]

\* C7: the returned trajectory has the length of the net series, starts at
\* clamp(initial_soc * capacity_kwh + net[0], 0, capacity_kwh) and continues with
\* clamp(soc[i-1] + net[i], 0, capacity_kwh) from the clamped previous value.
C7_BatteryRecurrence ==
    BatteryReturned =>
        LET soc == last.value.v
            net == net_energy_produced.v
            cap == last.capacity_kwh
        IN  /\ Len(soc) = Len(net)
            /\ \A i \in Indices(net) :
                  IF i = 1
                    THEN /\ Scale * Mul(last.initial_soc, cap) = last.initial_soc * cap
                         /\ soc[i] = clamp(Mul(last.initial_soc, cap) + net[1], 0, cap)
                    ELSE soc[i] = clamp(soc[i - 1] + net[i], 0, cap)

\* a trajectory whose first value was cut at zero and whose second value the
\* unclamped running sum would have put elsewhere
C7_Witness ==
    /\ BatteryReturned
    /\ Len(last.value.v) >= 2
    /\ last.capacity_kwh > 0
    /\ Mul(last.capacity_kwh, last.initial_soc) + net_energy_produced.v[1] < 0
    /\ last.value.v[1] = 0
    /\ last.value.v[2] = net_energy_produced.v[2]
    /\ last.value.v[2] > 0
    /\ last.value.v[2] < last.capacity_kwh

\* C8: calculate_ac_production(power) with n >= 1 samples returns n values, the first
\* 0.0 whatever power[0] is, the others timestep * 0.5 * (power[i] + power[i-1]).
C8_AcProduction ==
    (/\ last.op = "calculate_ac_production"
     /\ Len(vals) >= 1)
    => LET out == last.value.v
       IN  /\ Len(out) = Len(vals)
           /\ out[1] = 0
           /\ \A i \in 2..Len(vals) :
                 2 * Scale * out[i] = timestep * (vals[i] + vals[i - 1])

\* [4, 2, 0, 2, 4] kW at one hour gives [0, 3, 1, 1, 3] kWh: the first value is 0.0
\* although power[0] is not
C8_Witness ==
    /\ last.op = "calculate_ac_production"
    /\ timestep = One
    /\ vals = <<4 * Scale, 2 * Scale, 0, 2 * Scale, 4 * Scale>>
    /\ last.value.v = <<0, 3 * Scale, 1 * Scale, 1 * Scale, 3 * Scale>>

\* C9: calculate_zero_feed returns min(x, 0) for every net sample x: as long as the
\* net series, nothing above zero, and unchanged by a second application.
C9_ZeroFeed ==
    (/\ last.op = "calculate_zero_feed"
     /\ last.status = "ok")
    => LET net == net_energy_produced.v
           out == last.value.v
       IN  /\ Len(out) = Len(net)
           /\ \A i \in Indices(net) :
                 /\ out[i] = (IF net[i] > 0 THEN 0 ELSE net[i])
                 /\ out[i] <= 0
           /\ zero_feed_list(out) = out

\* net [-3, 2, -1] gives [-3, 0, -1]
C9_Witness ==
    /\ last.op = "calculate_zero_feed"
    /\ last.status = "ok"
    /\ net_energy_produced.v = <<-3 * Scale, 2 * Scale, -1 * Scale>>
    /\ last.value.v = <<-3 * Scale, 0, -1 * Scale>>

RECURSIVE PairSum(_, _)
PairSum(s, i) == IF i <= 1 THEN 0 ELSE (s[i - 1] + s[i]) + PairSum(s, i - 1)

TotalEnergyReturned == last.op = "total_energy"

\* C10: total_energy(vals, timestep) is the sum over consecutive pairs of
\* timestep * 0.5 * (vals[i-1] + vals[i]): 0 for fewer than two values,
\* timestep * v * (n-1) for n copies of v; the call changes no cached field.
C10_TotalEnergy ==
    /\ [](TotalEnergyReturned =>
            LET total == last.value.v[1]
                n == Len(vals)
            IN  /\ 2 * Scale * total = last.timestep * PairSum(vals, n)
                /\ n <= 1 => total = 0
                /\ (n >= 1 /\ \A i \in Indices(vals) : vals[i] = vals[1])
                      => Scale * total = last.timestep * vals[1] * (n - 1))
    /\ [][TotalEnergyReturned' => UNCHANGED <<cache, dirty, weather, vals>>]_vars

\* the trapezoid total of [0, 2, 4, 2, 0] at one hour is 8, on a system whose cache
\* is filled
C10_Witness ==
    /\ TotalEnergyReturned
    /\ vals = <<0, 2 * Scale, 4 * Scale, 2 * Scale, 0>>
    /\ last.timestep = One
    /\ last.value.v[1] = 8 * Scale
    /\ net_energy_produced.tag = "list"

====
